---------------------------- MODULE Spec2Model ----------------------------
(***************************************************************************)
(* Root state composition and selector library of the discogs player       *)
(* application (client/app/reducers, as found in                           *)
(* src/client/app/components/search-box/search-box.component.ts).          *)
(*                                                                         *)
(* JavaScript values are tagged records: undefined, null, a thrown         *)
(* TypeError, objects and arrays.  Objects and arrays whose identity is     *)
(* observed by the memoized selectors carry a `ref` field, so that TLA+     *)
(* equality of two such values is JavaScript reference identity (===) and   *)
(* two values that differ only in `ref` are structurally equal objects      *)
(* allocated separately.                                                    *)
(***************************************************************************)
EXTENDS Integers, Sequences, FiniteSets, TLC

VARIABLES
    production,  \* environment.production
    mutating,    \* the feature whose reducer writes into its input state, or "none"
    state,       \* the store's current global state (Undefined before the first call)
    call,        \* the last invocation of the root reducer and how it ended
    read,        \* the last selector read: selector, state read, value returned
    memo,        \* the cache of the memoized getNextPreviousVideos result function
    nav          \* next-button navigation: where it started and how many steps it took

vars == <<production, mutating, state, call, read, memo, nav>>

----------------------------------------------------------------------------
(* Bounds of the model *)

MaxVideos == 3       \* longest playlist video list
NumVideoIds == 3     \* video ids 1..NumVideoIds
MaxPlaylists == 3    \* longest list of playlists
NumPlaylistIds == 3  \* playlist ids 1..NumPlaylistIds
MemoMaxVideos == 2   \* longest video list in the memoization runs
NumRefs == 2         \* separately allocated copies of one object

VideoIds == 1..NumVideoIds
PlaylistIds == 1..NumPlaylistIds
Refs == 1..NumRefs
MemoVideoIds == {1, 2}

----------------------------------------------------------------------------
(* JavaScript values *)

Undefined == [type |-> "undefined"]
Null == [type |-> "null"]
TypeError == [type |-> "TypeError"]

\* !!x for the values of the model: only undefined and null are falsy
Truthy(x) == x.type \notin {"undefined", "null"}

Video(id, ref) == [type |-> "object", id |-> id, ref |-> ref]
PlaylistItem(id) == [type |-> "object", video |-> Video(id, 1)]
Array(items, ref) == [type |-> "array", items |-> items, ref |-> ref]
Playlist(id, videos) == [type |-> "object", id |-> id, videos |-> videos]

\* array[k] with JavaScript's 0-based index: undefined outside the array
At(array, k) ==
    IF k \in 0..(Len(array.items) - 1) THEN array.items[k + 1] ELSE Undefined

\* sequences over S of length 0..n
SeqsUpTo(S, n) == UNION {[1..k -> S] : k \in 0..n}

----------------------------------------------------------------------------
(* Global state shape and the feature reducers *)

\* interface State
StateKeys ==
    {"release", "videos", "player", "playlist", "collection",
     "wantlist", "search", "sales", "user", "router"}

\* const reducers = { ... }: the keys of the reducer map
ReducerKeysMissingOne == StateKeys \ {"wantlist"}
ReducerKeys ==
    {"release", "videos", "player", "playlist", "collection",
     "wantlist", "search", "sales", "user", "router"}

PlayerState(current) == [type |-> "object", current |-> current]
PlaylistState(playlists, current) ==
    [type |-> "object", playlists |-> playlists, current |-> current]
FeatureState(loaded) == [type |-> "object", loaded |-> loaded]

\* each feature module's initial state (the reducer's default argument)
InitialState(key) ==
    CASE key = "player" -> PlayerState(Undefined)
      [] key = "playlist" -> PlaylistState(Array(<<>>, 1), Null)
      [] OTHER -> FeatureState(FALSE)

InitAction == [type |-> "@ngrx/store/init", feature |-> "none", payload |-> Undefined]
FeatureAction(key, payload) == [type |-> "UPDATE", feature |-> key, payload |-> payload]
Play(video) == FeatureAction("player", PlayerState(video))

\* a feature module's reducer(state = initialState, action): the new feature
\* state for its own actions, the state it was given for every other action
FeatureReducer(key, featureState, action) ==
    LET current == IF featureState = Undefined THEN InitialState(key) ELSE featureState
    IN  IF action.feature = key THEN action.payload ELSE current

\* whether the feature reducer, handling `action`, writes into the state object
\* it was given instead of building a new one
FeatureMutates(key, featureState, action) ==
    /\ mutating = key
    /\ featureState # Undefined
    /\ action.feature = key

\* state[key] inside the combined reducer, whose state parameter defaults to {}
PreviousStateForKey(prevState, key) ==
    IF prevState = Undefined \/ key \notin DOMAIN prevState
    THEN Undefined ELSE prevState[key]

\* combineReducers(reducers): nextState[key] = reducers[key](state[key], action)
\* for every key of the reducer map.  `frozen` tells whether the state passed in
\* has been deep-frozen: a write into a frozen object throws.
combineReducers(prevState, action, frozen) ==
    LET previousStateForKey(key) == PreviousStateForKey(prevState, key)
    IN  IF frozen /\ \E key \in ReducerKeys :
                        FeatureMutates(key, previousStateForKey(key), action)
        THEN TypeError
        ELSE [key \in ReducerKeys |->
                 FeatureReducer(key, previousStateForKey(key), action)]

\* compose(storeFreeze, combineReducers)(reducers)
developmentReducer(prevState, action) == combineReducers(prevState, action, TRUE)

\* combineReducers(reducers)
productionReducer(prevState, action) == combineReducers(prevState, action, FALSE)

reducerAlwaysProduction(prevState, action) == productionReducer(prevState, action)
reducer(prevState, action) ==
    IF ~production
    THEN developmentReducer(prevState, action)
    ELSE productionReducer(prevState, action)

----------------------------------------------------------------------------
(* The store: one call of the root reducer per dispatched action *)

NoCall == [first |-> FALSE, init |-> FALSE, mutated |-> FALSE, outcome |-> "none"]
NoRead == [selector |-> "none", state |-> Undefined, value |-> Undefined]
NoMemo == [valid |-> FALSE, videos |-> Undefined, current |-> Undefined,
           result |-> Undefined, recomputed |-> FALSE, tick |-> FALSE]
NoNav == [start |-> Undefined, steps |-> 0]

Apply(action) ==
    LET result == reducer(state, action)
    IN  /\ state' = IF result = TypeError THEN state ELSE result
        /\ call' = [first |-> state = Undefined,
                    init |-> action = InitAction,
                    mutated |-> \E key \in StateKeys :
                        FeatureMutates(key, PreviousStateForKey(state, key), action),
                    outcome |-> IF result = TypeError THEN "raised" ELSE "returned"]

\* the actions dispatched in the root-reducer runs
StoreActions ==
    {InitAction}
    \cup {FeatureAction(key, FeatureState(TRUE)) :
            key \in StateKeys \ {"player", "playlist"}}
    \cup {Play(Video(1, 1)),
          FeatureAction("playlist",
              PlaylistState(Array(<<Playlist(1, Undefined)>>, 1), Playlist(1, Undefined)))}

Dispatch ==
    \E action \in StoreActions :
        /\ Apply(action)
        /\ UNCHANGED <<production, mutating, read, memo, nav>>

Init ==
    /\ production \in BOOLEAN
    /\ mutating \in {"none"} \cup StateKeys
    /\ state = Undefined
    /\ call = NoCall
    /\ read = NoRead
    /\ memo = NoMemo
    /\ nav = NoNav

Next == Dispatch

Spec == Init /\ [][Next]_vars

----------------------------------------------------------------------------
(* Root reducer properties *)

\* C6: called with no prior state and the initialization action, the root
\* reducer returns a global state in which every one of the ten declared
\* feature keys holds that feature's initial value, none undefined.
C6_InitPopulatesEveryFeature ==
    (call.first /\ call.init) =>
        /\ call.outcome = "returned"
        /\ StateKeys \subseteq DOMAIN state
        /\ \A key \in StateKeys :
               state[key] = InitialState(key) /\ state[key] # Undefined

C6_Witness ==
    /\ call.first /\ call.init /\ call.outcome = "returned"
    /\ state # Undefined
    /\ Cardinality(DOMAIN state) = 10

\* C7: a call in which a feature reducer writes into its input state raises
\* exactly when the environment flag is non-production; with the production
\* flag set the same call returns a state.
C7_MutationRaisesOnlyInDevelopment ==
    call.mutated =>
        /\ ~production => call.outcome = "raised"
        /\ production => (call.outcome = "returned" /\ state # Undefined)

C7_Witness ==
    call.mutated /\ ~production /\ call.outcome = "raised"

----------------------------------------------------------------------------
(* Selector library: the projections, without their memoization *)

\* the feature modules' own selectors
fromPlayer_getPlayerCurrent(playerState) == playerState.current
fromPlaylist_getPlaylists(playlistState) == playlistState.playlists
fromPlaylist_getCurrent(playlistState) == playlistState.current

getPlayerState(s) == s.player
getPlayerCurrent(s) == fromPlayer_getPlayerCurrent(getPlayerState(s))

getPlaylistState(s) == s.playlist
getPlaylists(s) == fromPlaylist_getPlaylists(getPlaylistState(s))
getCurrentPlaylist(s) == fromPlaylist_getCurrent(getPlaylistState(s))

\* (playlists, current) => playlists.filter(p => p.id !== current.id)
\* playlists.filter throws on a missing list; the callback reads current.id
\* once per element, and throws there when current is missing.
playlistsForListKeepCurrent(playlists, current) ==
    IF ~Truthy(playlists) THEN TypeError
    ELSE IF playlists.items # <<>> /\ ~Truthy(current) THEN TypeError
    ELSE Array(SelectSeq(playlists.items, LAMBDA p : p.id = current.id), 0)
playlistsForList(playlists, current) ==
    IF ~Truthy(playlists) THEN TypeError
    ELSE IF playlists.items # <<>> /\ ~Truthy(current) THEN TypeError
    ELSE Array(SelectSeq(playlists.items, LAMBDA p : p.id # current.id), 0)

getPlaylistsForList(s) == playlistsForList(getPlaylists(s), getCurrentPlaylist(s))

\* current => current && current.videos
selectedPlaylistVideosUnguarded(current) ==
    IF Truthy(current) THEN current.videos ELSE TypeError
selectedPlaylistVideos(current) ==
    IF Truthy(current) THEN current.videos ELSE current

getSelectedPlaylistVideos(s) == selectedPlaylistVideos(getCurrentPlaylist(s))

\* videos.map(v => v.video.id).indexOf(current && current.id), 0-based, -1 when
\* absent.  Every video carries an id, so undefined and null are never found.
currentIndexOf(videos, current) ==
    LET found == {k \in 1..Len(videos.items) :
                     Truthy(current) /\ videos.items[k].video.id = current.id}
    IN  IF found = {} THEN -1
        ELSE (CHOOSE k \in found : \A j \in found : k <= j) - 1

\* the result function of getNextPreviousVideos
nextPreviousOffByOne(videos, current) ==
    IF ~Truthy(videos) THEN Null
    ELSE LET currentIndex == currentIndexOf(videos, current)
         IN  [type |-> "object",
              next |-> IF currentIndex < Len(videos.items)
                       THEN At(videos, currentIndex + 1) ELSE At(videos, 0),
              prev |-> IF currentIndex > 0
                       THEN At(videos, currentIndex - 1) ELSE Null]
nextPreviousCurrentUnguarded(videos, current) ==
    IF ~Truthy(videos) THEN Null
    ELSE IF ~Truthy(current) THEN TypeError
    ELSE LET currentIndex == currentIndexOf(videos, current)
         IN  [type |-> "object",
              next |-> IF currentIndex < Len(videos.items) - 1
                       THEN At(videos, currentIndex + 1) ELSE At(videos, 0),
              prev |-> IF currentIndex > 0
                       THEN At(videos, currentIndex - 1) ELSE Null]
nextPreviousNoWrap(videos, current) ==
    IF ~Truthy(videos) THEN Null
    ELSE LET currentIndex == currentIndexOf(videos, current)
         IN  [type |-> "object",
              next |-> IF currentIndex < Len(videos.items) - 1
                       THEN At(videos, currentIndex + 1) ELSE At(videos, currentIndex),
              prev |-> IF currentIndex > 0
                       THEN At(videos, currentIndex - 1) ELSE Null]
nextPreviousVideos(videos, current) ==
    IF ~Truthy(videos) THEN Null
    ELSE LET currentIndex == currentIndexOf(videos, current)
         IN  [type |-> "object",
              next |-> IF currentIndex < Len(videos.items) - 1
                       THEN At(videos, currentIndex + 1) ELSE At(videos, 0),
              prev |-> IF currentIndex > 0
                       THEN At(videos, currentIndex - 1) ELSE Null]

\* a selector whose input selector threw throws too
getNextPreviousVideos(s) ==
    LET videos == getSelectedPlaylistVideos(s)
    IN  IF videos = TypeError THEN TypeError
        ELSE nextPreviousVideos(videos, getPlayerCurrent(s))

----------------------------------------------------------------------------
(* Selector reads over store states *)

\* a global state whose playlist and player slices are as given, every other
\* feature in its initial state
StoreState(playlistState, playerState) ==
    [key \in StateKeys |->
        CASE key = "playlist" -> playlistState
          [] key = "player" -> playerState
          [] OTHER -> InitialState(key)]

VideoList(ids, ref) == Array([k \in 1..Len(ids) |-> PlaylistItem(ids[k])], ref)
PlaylistList(ids) == Array([k \in 1..Len(ids) |-> Playlist(ids[k], Undefined)], 1)

\* states with one current playlist, whose video list may not be loaded,
\* and any current video of the player
VideoStates ==
    {StoreState(PlaylistState(Array(<<current>>, 1), current), PlayerState(playing)) :
        current \in {Playlist(1, videos) :
                        videos \in {Undefined, Null}
                            \cup {VideoList(ids, 1) : ids \in SeqsUpTo(VideoIds, MaxVideos)}},
        playing \in {Undefined, Null} \cup {Video(id, 1) : id \in VideoIds}}
    \cup
    {StoreState(PlaylistState(Array(<<>>, 1), current), PlayerState(playing)) :
        current \in {Undefined, Null},
        playing \in {Undefined, Null} \cup {Video(id, 1) : id \in VideoIds}}

\* states with any list of playlists and any current playlist, either of
\* them possibly missing
PlaylistStates ==
    {StoreState(PlaylistState(playlists, current), PlayerState(Undefined)) :
        playlists \in {Undefined, Null}
                      \cup {PlaylistList(ids) : ids \in SeqsUpTo(PlaylistIds, MaxPlaylists)},
        current \in {Undefined, Null} \cup {Playlist(id, Undefined) : id \in PlaylistIds}}

SelInit ==
    /\ production \in BOOLEAN
    /\ mutating = "none"
    /\ state \in VideoStates \cup PlaylistStates
    /\ call = NoCall
    /\ read = NoRead
    /\ memo = NoMemo
    /\ nav = NoNav

ReadPlaylistsForList ==
    /\ read' = [selector |-> "getPlaylistsForList", state |-> state,
                value |-> getPlaylistsForList(state)]
    /\ UNCHANGED <<production, mutating, state, call, memo, nav>>

ReadSelectedPlaylistVideos ==
    /\ read' = [selector |-> "getSelectedPlaylistVideos", state |-> state,
                value |-> getSelectedPlaylistVideos(state)]
    /\ UNCHANGED <<production, mutating, state, call, memo, nav>>

ReadNextPreviousVideos ==
    /\ read' = [selector |-> "getNextPreviousVideos", state |-> state,
                value |-> getNextPreviousVideos(state)]
    /\ UNCHANGED <<production, mutating, state, call, memo, nav>>

\* the next button: play the `next` the selector returned for the current
\* state.  Navigation is followed for two rounds of the list.
PlayNext ==
    /\ read.selector = "getNextPreviousVideos"
    /\ read.state = state
    /\ read.value.type = "object"
    /\ Truthy(read.value.next)
    /\ nav.steps < 2 * Len(getSelectedPlaylistVideos(state).items)
    /\ Apply(Play(read.value.next.video))
    /\ nav' = [start |-> IF nav.steps = 0 THEN getPlayerCurrent(state) ELSE nav.start,
               steps |-> nav.steps + 1]
    /\ UNCHANGED <<production, mutating, read, memo>>

SelNext ==
    \/ ReadPlaylistsForList
    \/ ReadSelectedPlaylistVideos
    \/ ReadNextPreviousVideos
    \/ PlayNext

SelSpec == SelInit /\ [][SelNext]_vars

----------------------------------------------------------------------------
(* Selector properties, stated on the state a selector read and the value
   it returned *)

\* the inputs of a read, taken from the state it read
PlaylistsOf(s) == s.playlist.playlists
CurrentPlaylistOf(s) == s.playlist.current
VideosOf(s) ==
    IF Truthy(s.playlist.current) THEN s.playlist.current.videos ELSE Undefined
PlayingOf(s) == s.player.current

DistinctIds(videos) ==
    \A i, j \in 1..Len(videos.items) :
        i # j => videos.items[i].video.id # videos.items[j].video.id

Absent(v) == v \in {Undefined, Null}

\* C1: for a video list with pairwise distinct ids and a playing video whose
\* id is that of the item at index i, next is the item after i, or the first
\* item when i is the last index, and prev is the item before i, or null when
\* i is the first index.
C1_NextWrapsPrevStops ==
    read.selector = "getNextPreviousVideos" =>
        LET videos == VideosOf(read.state)
            playing == PlayingOf(read.state)
        IN  (Truthy(videos) /\ Truthy(playing) /\ DistinctIds(videos)) =>
                \A i \in 1..Len(videos.items) :
                    videos.items[i].video.id = playing.id =>
                        /\ read.value.type = "object"
                        /\ read.value.next =
                              IF i < Len(videos.items)
                              THEN videos.items[i + 1] ELSE videos.items[1]
                        /\ read.value.prev =
                              IF i > 1 THEN videos.items[i - 1] ELSE Null

C1_Witness ==
    /\ read.selector = "getNextPreviousVideos"
    /\ Truthy(VideosOf(read.state))
    /\ Len(VideosOf(read.state).items) = 3
    /\ DistinctIds(VideosOf(read.state))
    /\ Truthy(PlayingOf(read.state))
    /\ PlayingOf(read.state).id = VideosOf(read.state).items[3].video.id
    /\ read.value.next = VideosOf(read.state).items[1]
    /\ read.value.prev = VideosOf(read.state).items[2]

\* C2, as claimed: with nothing playing (current video undefined) and a video
\* list present, the selector returns a result with no next and no previous
\* video, and does not raise.
C2_NothingPlayingNoNextNoPrev ==
    (/\ read.selector = "getNextPreviousVideos"
     /\ Truthy(VideosOf(read.state))
     /\ PlayingOf(read.state) = Undefined) =>
        /\ read.value # TypeError
        /\ \/ Absent(read.value)
           \/ Absent(read.value.next) /\ Absent(read.value.prev)

\* C2, amended: with nothing playing and a video list present, the selector
\* does not raise and returns prev = null and next = the first video of the
\* list (undefined when the list is empty).
C2_NothingPlayingNextIsFirst ==
    (/\ read.selector = "getNextPreviousVideos"
     /\ Truthy(VideosOf(read.state))
     /\ PlayingOf(read.state) = Undefined) =>
        /\ read.value.type = "object"
        /\ read.value.prev = Null
        /\ read.value.next =
              IF VideosOf(read.state).items = <<>>
              THEN Undefined ELSE VideosOf(read.state).items[1]

C2_Witness ==
    /\ read.selector = "getNextPreviousVideos"
    /\ Truthy(VideosOf(read.state))
    /\ Len(VideosOf(read.state).items) = 2
    /\ PlayingOf(read.state) = Undefined
    /\ read.value.type = "object"
    /\ read.value.next = VideosOf(read.state).items[1]

\* C3, as claimed: when the list of playlists or the current playlist is
\* absent or empty, getPlaylistsForList does not throw and returns a neutral
\* result (no value, or a list).
C3_PlaylistsForListTotal ==
    (/\ read.selector = "getPlaylistsForList"
     /\ \/ Absent(PlaylistsOf(read.state))
        \/ Absent(CurrentPlaylistOf(read.state))
        \/ PlaylistsOf(read.state).items = <<>>) =>
        /\ read.value # TypeError
        /\ Absent(read.value) \/ read.value.type = "array"

\* C4: with no current playlist, or a current playlist whose video list is not
\* loaded, getSelectedPlaylistVideos and getNextPreviousVideos return no value
\* (null or undefined) and do not throw, whatever the player is playing.
C4_NoVideoListNoValue ==
    (/\ read.selector \in {"getSelectedPlaylistVideos", "getNextPreviousVideos"}
     /\ \/ Absent(CurrentPlaylistOf(read.state))
        \/ Absent(CurrentPlaylistOf(read.state).videos)) =>
        Absent(read.value)

C4_Witness ==
    /\ read.selector = "getNextPreviousVideos"
    /\ CurrentPlaylistOf(read.state) = Null
    /\ Truthy(PlayingOf(read.state))
    /\ read.value = Null

\* the playlists of a sequence whose id is not `id`, in their order
RECURSIVE Without(_, _)
Without(playlists, id) ==
    IF playlists = <<>> THEN <<>>
    ELSE IF Head(playlists).id = id THEN Without(Tail(playlists), id)
    ELSE <<Head(playlists)>> \o Without(Tail(playlists), id)

\* C5: given a list of playlists and a current playlist, getPlaylistsForList
\* returns exactly the playlists whose id differs from the current one's, in
\* their original order.
C5_OtherPlaylistsInOrder ==
    (/\ read.selector = "getPlaylistsForList"
     /\ Truthy(PlaylistsOf(read.state))
     /\ Truthy(CurrentPlaylistOf(read.state))) =>
        /\ read.value.type = "array"
        /\ read.value.items =
              Without(PlaylistsOf(read.state).items, CurrentPlaylistOf(read.state).id)

C5_Witness ==
    /\ read.selector = "getPlaylistsForList"
    /\ Truthy(PlaylistsOf(read.state))
    /\ Truthy(CurrentPlaylistOf(read.state))
    /\ CurrentPlaylistOf(read.state).id = 2
    /\ PlaylistsOf(read.state).items =
          <<Playlist(1, Undefined), Playlist(2, Undefined), Playlist(3, Undefined)>>
    /\ read.value.items = <<Playlist(1, Undefined), Playlist(3, Undefined)>>

\* C10: on a non-empty video list with pairwise distinct ids, navigation that
\* started on the item at index s and has played `next` k times is on the item
\* at index (s + k) mod n, so every video is played in list order with
\* wrap-around and the starting video again after exactly n steps; and the
\* selector always offers a video of the list as next, so it never gets stuck.
C10_NextCyclesThroughList ==
    LET videos == VideosOf(state)
        playing == PlayingOf(state)
    IN  (Truthy(videos) /\ videos.items # <<>> /\ DistinctIds(videos)) =>
            LET n == Len(videos.items)
            IN  /\ (nav.steps > 0 /\ Truthy(nav.start)) =>
                       \A s \in 1..n :
                           videos.items[s].video.id = nav.start.id =>
                               /\ Truthy(playing)
                               /\ playing.id =
                                     videos.items[((s - 1 + nav.steps) % n) + 1].video.id
                /\ (read.selector = "getNextPreviousVideos" /\ read.state = state
                        /\ Truthy(playing)
                        /\ \E s \in 1..n : videos.items[s].video.id = playing.id) =>
                       /\ read.value.type = "object"
                       /\ \E s \in 1..n : read.value.next = videos.items[s]

C10_Witness ==
    /\ Truthy(VideosOf(state))
    /\ Len(VideosOf(state).items) = 3
    /\ DistinctIds(VideosOf(state))
    /\ Truthy(nav.start)
    /\ nav.start.id = VideosOf(state).items[2].video.id
    /\ nav.steps = 3
    /\ PlayingOf(state) = nav.start

----------------------------------------------------------------------------
(* Memoization of getNextPreviousVideos by createSelector *)

\* the value with its identity dropped
Content(v) == IF "ref" \in DOMAIN v THEN [v EXCEPT !.ref = 0] ELSE v

\* createSelector's memoized result function keeps the arguments of its last
\* call and its last result (a cache of one entry), and takes the arguments to
\* be unchanged when each is === the one kept.
argumentsUnchangedByContent(cache, videos, current) ==
    /\ cache.valid
    /\ Content(videos) = Content(cache.videos)
    /\ Content(current) = Content(cache.current)
argumentsUnchanged(cache, videos, current) ==
    /\ cache.valid
    /\ videos = cache.videos
    /\ current = cache.current

\* one read through the memoized selector: the input selectors are evaluated
\* and the result function runs only when an argument changed.  `recomputed`
\* records whether it ran; `tick` flips at every read.
MemoizedRead ==
    /\ state # Undefined
    /\ LET videos == getSelectedPlaylistVideos(state)
           current == getPlayerCurrent(state)
           hit == argumentsUnchanged(memo, videos, current)
       IN  memo' = [valid |-> TRUE,
                    videos |-> videos,
                    current |-> current,
                    result |-> IF hit THEN memo.result
                               ELSE nextPreviousVideos(videos, current),
                    recomputed |-> ~hit,
                    tick |-> ~memo.tick]
    /\ UNCHANGED <<production, mutating, state, call, read, nav>>

\* the actions dispatched in the memoization runs: a video starts playing, a
\* playlist (with videos 1..n, or none loaded) becomes current, a search
\* finishes or is reset
MemoActions ==
    {Play(video) :
        video \in {Undefined} \cup {Video(id, ref) : id \in MemoVideoIds, ref \in Refs}}
    \cup
    {LET current == Playlist(1, videos)
     IN  FeatureAction("playlist", PlaylistState(Array(<<current>>, 1), current)) :
        videos \in {Undefined}
            \cup {VideoList([k \in 1..n |-> k], ref) :
                    n \in 0..MemoMaxVideos, ref \in Refs}}
    \cup
    {FeatureAction("search", FeatureState(loaded)) : loaded \in BOOLEAN}

MemoDispatch ==
    \E action \in MemoActions :
        /\ Apply(action)
        /\ UNCHANGED <<production, mutating, read, memo, nav>>

MemoInit ==
    /\ production \in BOOLEAN
    /\ mutating = "none"
    /\ state = reducer(Undefined, InitAction)
    /\ call = [first |-> TRUE, init |-> TRUE, mutated |-> FALSE, outcome |-> "returned"]
    /\ read = NoRead
    /\ memo = NoMemo
    /\ nav = NoNav

MemoNext == MemoDispatch \/ MemoizedRead

MemoSpec == MemoInit /\ [][MemoNext]_vars

=============================================================================
